---- MODULE Spec2Model ----
(***************************************************************************)
(* A model of apifunc: DynamicgRPCComponent and PipelineOrchestrator of    *)
(* src/src/apifunc/apifunc.py.  A pipeline is a list of components; each   *)
(* component wraps a transform function and can start a gRPC server for    *)
(* it.  execute_pipeline threads a value through the components; several   *)
(* threads may run it at once.  start_servers / stop_servers start and     *)
(* stop one server per component.                                          *)
(* Call chains of add_component, the argument dispatch of process and the  *)
(* worker pool of a server are each modelled in a specification of their   *)
(* own.                                                                    *)
(***************************************************************************)
EXTENDS Integers, Sequences, FiniteSets, TLC

----------------------------------------------------------------------------
(* Bounds of the model.                                                    *)

MaxComps == 2       \* component objects constructed
MaxStages == 2      \* length of the orchestrator's components list
MaxServers == 2     \* gRPC servers created over a run
MaxStops == 2       \* stop(0) calls one server receives

(* The values the environment supplies.                                    *)

Funcs == {"short_only", "even_only"}    \* names of the transform functions
Ports == {50051, 50052}                  \* the ports of example_usage

(* The constructor arguments of the components of example_usage: two       *)
(* functions, each on a port of its own.                                   *)
ComponentArgs == {[func |-> "short_only", port |-> 50051],
                  [func |-> "even_only", port |-> 50052]}
Inputs == {<<>>, <<0>>, <<0, 0>>}        \* initial_data of execute_pipeline
Threads == {"t1", "t2"}                  \* threads calling execute_pipeline

None == 0           \* self.server = None; server ids start at 1

----------------------------------------------------------------------------
VARIABLES
    generated,      \* function names whose <name>_pb2_grpc.py is on disk
    comp,           \* the DynamicgRPCComponent objects constructed so far
    components,     \* PipelineOrchestrator.components (ids into comp)
    server,         \* the grpc.Server objects that were started
    servers,        \* PipelineOrchestrator.servers (ids into server)
    call,           \* per thread: its execute_pipeline call
    last,           \* what the most recent constructor / lifecycle call did
    orchestrator_class, \* the file whose PipelineOrchestrator class is used
    stmt,           \* the call chain of the statement being evaluated
    invocation,     \* one call of a component's process, taken by itself
    pool,           \* the worker pool of one server, taken by itself
    framework,      \* one ApiFuncFramework object, used directly
    demo,           \* the two-service program of example2.py
    foreground,     \* one run of example_usage, the foreground server loop
    loader          \* one import of the module apifunc.components

vars == <<generated, comp, components, server, servers, call, last,
          orchestrator_class, stmt, invocation, pool, framework,
          demo, foreground, loader>>

lifecycle == <<server, servers>>

(* What the pipeline's own operations never touch.                         *)
(* The parts of the program that later sections model by themselves.       *)
programs == <<demo, foreground, loader>>
standalone == <<framework, programs>>

rest == <<orchestrator_class, stmt, invocation, pool, standalone>>

----------------------------------------------------------------------------
(* The transform functions.  A transform function is opaque to the         *)
(* pipeline: it maps a value to a value or raises.  Values are sequences   *)
(* of markers.  short_only appends its marker to a value of fewer than two *)
(* markers, even_only appends its marker to a value of even length; each   *)
(* raises ValueError on any other value.                                   *)

NoExc == "none"

Marker(f) == IF f = "short_only" THEN 1 ELSE 2

Raises(f, data) ==
    IF f = "short_only" THEN Len(data) >= 2 ELSE Len(data) % 2 = 1

transform_func(f, data) ==
    IF Raises(f, data)
    THEN [ok |-> FALSE, value |-> <<>>, exc |-> "ValueError"]
    ELSE [ok |-> TRUE, value |-> Append(data, Marker(f)), exc |-> NoExc]

(* A variant of process: the call is refused unless the component's       *)
(* server is serving.                                                      *)
processWhileRunning(c, data) ==
    IF comp[c].server # None /\ server[comp[c].server].stage = "started"
    THEN transform_func(comp[c].func, data)
    ELSE [ok |-> FALSE, value |-> <<>>, exc |-> "NotRunning"]

(* DynamicgRPCComponent.process: the transform function applied to the     *)
(* data as it is.                                                          *)
process(c, data) == transform_func(comp[c].func, data)

----------------------------------------------------------------------------
(* Construction.                                                           *)

NoCall == [status |-> "idle", input |-> <<>>, current_data |-> <<>>,
           idx |-> 0, log |-> <<>>, result |-> <<>>, error |-> NoExc]

NoOp == [op |-> "none", exc |-> "none", at |-> 0]

(* No statement is being evaluated: a statement starts on the variable     *)
(* that holds the orchestrator and has made no call yet.                   *)
NoStmt == [receiver |-> "self", args |-> <<>>]

(* Nothing constructed yet but the orchestrator, whose lists are empty.    *)
Fresh ==
    /\ generated \in SUBSET Funcs
    /\ comp = <<>>
    /\ components = <<>>
    /\ server = <<>>
    /\ servers = <<>>
    /\ call = [t \in Threads |-> NoCall]
    /\ last = NoOp
    /\ stmt = NoStmt

(* No call of process is looked at by itself.                              *)
NoInvocation == [file |-> "none", params |-> <<>>,
                 input_data |-> [kind |-> "none", items |-> {}],
                 outcome |-> [state |-> "none"]]

(* No framework object is used directly.                                   *)
NoFramework == [funcs |-> {}]

NoProgram == [pc |-> "not run"]
ProgramsIdle == demo = NoProgram /\ foreground = NoProgram /\ loader = NoProgram
StandaloneIdle == framework = NoFramework /\ ProgramsIdle

(* No server's worker pool is looked at by itself.                         *)
NoPool == [asked |-> None, max_workers |-> 0, queued |-> 0, in_flight |-> 0]

Init ==
    /\ Fresh
    /\ orchestrator_class = "apifunc.py"
    /\ invocation = NoInvocation
    /\ pool = NoPool
    /\ StandaloneIdle

(* _load_grpc_module: executes <generated_dir>/<name>_pb2_grpc.py; the     *)
(* loader raises FileNotFoundError when the file is not there.             *)
_load_grpc_module(f) == f \in generated

(* DynamicgRPCComponent.__init__(transform_func, proto_dir, generated_dir, *)
(* port): loads the generated module, then sets port and server = None.    *)
DynamicgRPCComponent(f, p) ==
    /\ Len(comp) < MaxComps
    /\ IF _load_grpc_module(f)
       THEN /\ comp' = Append(comp, [func |-> f, port |-> p, server |-> None])
            /\ last' = [op |-> "__init__", exc |-> "none", at |-> Len(comp) + 1]
       ELSE /\ comp' = comp
            /\ last' = [op |-> "__init__", exc |-> "FileNotFoundError", at |-> 0]
    /\ UNCHANGED <<rest, generated, components, lifecycle, call>>

(* A variant of append: the component is put in front of the list.        *)
appendFirst(stages, c) == <<c>> \o stages

(* self.components.append(component) *)
append(stages, c) == Append(stages, c)

(* PipelineOrchestrator.add_component as a statement of its own,           *)
(* orchestrator.add_component(c): append; what it returns is dropped.      *)
add_component(c) ==
    /\ c \in 1..Len(comp)
    /\ Len(components) < MaxStages
    /\ components' = append(components, c)
    /\ last' = [op |-> "add_component", exc |-> "none", at |-> Len(components) + 1]
    /\ UNCHANGED <<rest, generated, comp, lifecycle, call>>

----------------------------------------------------------------------------
(* PipelineOrchestrator.execute_pipeline, one step per iteration of its    *)
(* for loop; the loop variables are local to the call.                     *)

(* A variant of InitialData: current_data starts as an empty value.        *)
InitialDataEmpty(x) == <<>>

(* current_data = initial_data *)
InitialData(x) == x

execute_pipeline_call(t, x) ==
    /\ call[t].status # "running"
    /\ call' = [call EXCEPT ![t] =
                  [status |-> "running", input |-> x,
                   current_data |-> InitialData(x), idx |-> 0, log |-> <<>>,
                   result |-> <<>>, error |-> NoExc]]
    /\ UNCHANGED <<rest, generated, comp, components, lifecycle, last>>

(* The list iterator of "for component in self.components": the element   *)
(* at its index, as long as the index is below the list's current length.  *)
HasNext(i) == i < Len(components)

(* A variant of NextComponent: the list is walked from its end.            *)
NextComponentReversed(i) == components[Len(components) - i]

NextComponent(i) == components[i + 1]

(* A variant of StoreCurrent: current_data is kept on the orchestrator, so  *)
(* every call in progress sees the assignment.                             *)
StoreCurrentShared(calls, t, r, c) ==
    [u \in DOMAIN calls |->
        IF u = t
        THEN [calls[u] EXCEPT !.current_data = r.value,
                              !.idx = @ + 1,
                              !.log = Append(@, [comp |-> c,
                                                 input |-> calls[t].current_data])]
        ELSE IF calls[u].status = "running"
             THEN [calls[u] EXCEPT !.current_data = r.value]
             ELSE calls[u]]

(* current_data = ...: the assignment to the call's local variable.        *)
StoreCurrent(calls, t, r, c) ==
    [calls EXCEPT ![t].current_data = r.value,
                  ![t].idx = @ + 1,
                  ![t].log = Append(@, [comp |-> c, input |-> calls[t].current_data])]

(* A variant of Propagate: the exception is caught in the loop and the     *)
(* loop goes on with the data it had.                                      *)
PropagateSwallowed(calls, t, r, c) ==
    [calls EXCEPT ![t].idx = @ + 1,
                  ![t].log = Append(@, [comp |-> c, input |-> calls[t].current_data])]

(* An exception of process leaves execute_pipeline through the loop: the   *)
(* call ends with the exception the transform function raised.             *)
Propagate(calls, t, r, c) ==
    [calls EXCEPT ![t].status = "raised",
                  ![t].error = r.exc,
                  ![t].log = Append(@, [comp |-> c, input |-> calls[t].current_data])]

execute_pipeline_next(t) ==
    /\ call[t].status = "running"
    /\ HasNext(call[t].idx)
    /\ LET c == NextComponent(call[t].idx)
           r == process(c, call[t].current_data)
       IN  call' = IF r.ok THEN StoreCurrent(call, t, r, c)
                           ELSE Propagate(call, t, r, c)
    /\ UNCHANGED <<rest, generated, comp, components, lifecycle, last>>

(* return current_data *)
ReturnValue(rec) == rec.current_data

execute_pipeline_return(t) ==
    /\ call[t].status = "running"
    /\ ~HasNext(call[t].idx)
    /\ call' = [call EXCEPT ![t].status = "returned",
                            ![t].result = ReturnValue(call[t])]
    /\ UNCHANGED <<rest, generated, comp, components, lifecycle, last>>

----------------------------------------------------------------------------
(* The pipeline run by threads: components are constructed and added, and  *)
(* threads call execute_pipeline.                                          *)

NextExec ==
    \/ \E a \in ComponentArgs : DynamicgRPCComponent(a.func, a.port)
    \/ \E c \in 1..MaxComps : add_component(c)
    \/ \E t \in Threads, x \in Inputs : execute_pipeline_call(t, x)
    \/ \E t \in Threads : execute_pipeline_next(t)
    \/ \E t \in Threads : execute_pipeline_return(t)

SpecExec == Init /\ [][NextExec]_vars

----------------------------------------------------------------------------
(* Properties of execute_pipeline, checked under SpecExec.                 *)

(* The stages run one after the other by a single caller, from the k-th    *)
(* stage on: the value f_n(...f_k(data)), or the first exception and the   *)
(* index of the stage that raised it.                                      *)
RECURSIVE RunAlone(_, _, _)
RunAlone(stages, k, data) ==
    IF k > Len(stages)
    THEN [ok |-> TRUE, value |-> data, exc |-> NoExc, at |-> 0]
    ELSE LET r == process(stages[k], data)
         IN  IF r.ok THEN RunAlone(stages, k + 1, r.value)
                     ELSE [ok |-> FALSE, value |-> <<>>, exc |-> r.exc, at |-> k]

Finishes(t) == call[t].status = "running" /\ call'[t].status # "running"

(* C1: when execute_pipeline returns from a pipeline of N >= 1 stages in   *)
(* which no stage failed, it has invoked every stage exactly once, in the  *)
(* order the stages were added, the first with the initial data and each   *)
(* later one with the output of the stage before it, and it returns the    *)
(* output of the last stage.                                               *)
C1_StagesInOrder ==
    [][\A t \in Threads :
         (Finishes(t) /\ call'[t].status = "returned" /\ Len(components) >= 1) =>
            LET rec == call'[t]
                n == Len(components)
            IN  /\ Len(rec.log) = n
                /\ \A i \in 1..n :
                     /\ rec.log[i].comp = components[i]
                     /\ process(rec.log[i].comp, rec.log[i].input).ok
                     /\ rec.log[i].input =
                          IF i = 1 THEN rec.input
                          ELSE process(components[i - 1], rec.log[i - 1].input).value
                /\ rec.result = process(components[n], rec.log[n].input).value
      ]_vars

(* A call has returned from a run through two stages of different          *)
(* functions.                                                              *)
C1_Witness ==
    \E t \in Threads :
        /\ call[t].status = "returned"
        /\ Len(call[t].log) >= 2
        /\ comp[call[t].log[1].comp].func # comp[call[t].log[2].comp].func
        /\ call[t].result = <<0, 1, 2>>

(* C2: on an orchestrator with no stages execute_pipeline invokes nothing  *)
(* and returns its input unchanged.                                        *)
C2_EmptyPipelineIdentity ==
    \A t \in Threads :
        (Len(components) = 0 /\ call[t].status # "idle") =>
            /\ call[t].log = <<>>
            /\ call[t].status # "raised"
            /\ call[t].status = "returned" => call[t].result = call[t].input

C2_Witness ==
    \E t \in Threads :
        /\ Len(components) = 0
        /\ call[t].status = "returned"
        /\ call[t].input = <<0>>

(* C3: a failed invocation ends the run: it is the last invocation of its  *)
(* call, the call has raised the exception of that invocation and has      *)
(* returned no value; and a call that raised did so at a failed            *)
(* invocation.                                                             *)
C3_AbortAtFirstFailure ==
    \A t \in Threads :
        LET rec == call[t]
            n == Len(rec.log)
        IN  /\ \A i \in 1..n :
                 LET r == process(rec.log[i].comp, rec.log[i].input)
                 IN  ~r.ok => /\ i = n
                              /\ rec.status = "raised"
                              /\ rec.error = r.exc
                              /\ rec.result = <<>>
                              /\ rec.idx = n - 1
            /\ rec.status = "raised" =>
                 /\ n >= 1
                 /\ ~process(rec.log[n].comp, rec.log[n].input).ok
            /\ rec.status = "returned" => rec.error = NoExc

(* A stage has raised while a later stage of the pipeline existed: the     *)
(* later stage was not invoked.                                            *)
C3_Witness ==
    \E t \in Threads :
        /\ call[t].status = "raised"
        /\ call[t].error = "ValueError"
        /\ Len(call[t].log) < Len(components)

(* The stage at which a call failed, and the name of its function.         *)
FailedStage(t) == Len(call[t].log)

FailedName(t) == comp[call[t].log[FailedStage(t)].comp].func

(* C4: the failure execute_pipeline delivers tells the caller which stage  *)
(* failed, by index or by name: two failures that are delivered as the     *)
(* same error come from the same stage index or from stages of the same    *)
(* name.                                                                   *)
C4_FailureNamesStage ==
    \A t, u \in Threads :
        (call[t].status = "raised" /\ call[u].status = "raised"
           /\ call[t].error = call[u].error) =>
            \/ FailedStage(t) = FailedStage(u)
            \/ FailedName(t) = FailedName(u)

(* C5: whatever the other calls do in between, a call ends as it would     *)
(* have ended running alone on the same input: with the value, or with the *)
(* exception at the same stage, of the stages run one after the other.     *)
C5_ConcurrentCallsIndependent ==
    [][\A t \in Threads :
         Finishes(t) =>
            LET rec == call'[t]
                alone == RunAlone(components, 1, rec.input)
            IN  IF rec.status = "returned"
                THEN alone.ok /\ rec.result = alone.value
                ELSE /\ rec.status = "raised"
                     /\ ~alone.ok
                     /\ rec.error = alone.exc
                     /\ Len(rec.log) = alone.at
      ]_vars

(* A call has returned from two stages while another call, on a different  *)
(* input, is between its stages.                                           *)
C5_Witness ==
    \E t, u \in Threads :
        /\ call[t].status = "returned"
        /\ Len(call[t].log) >= 2
        /\ call[u].status = "running"
        /\ call[u].idx = 1
        /\ call[u].input # call[t].input
        /\ call[u].current_data # call[t].log[2].input

----------------------------------------------------------------------------
(* Server lifecycle.                                                       *)

(* What ApiFuncFramework.start_server can do on a port: add_insecure_port  *)
(* binds it and start() runs the server, or add_insecure_port raises       *)
(* RuntimeError because the port cannot be bound.  Which one happens is    *)
(* decided outside the program (another process on the port, the socket    *)
(* options of the gRPC build).                                             *)
BindOutcomes == {"started", "RuntimeError"}

(* ApiFuncFramework.register_function: writes and compiles <name>.proto,   *)
(* which (re)generates <name>_pb2_grpc.py.                                 *)
register_function(gen, f) == gen \cup {f}

(* The orchestrator-independent state a lifecycle call works on.           *)
State(cs, ss, reg) == [comp |-> cs, server |-> ss, servers |-> reg]

(* ApiFuncFramework.start_server: _create_server, add the servicer, add    *)
(* the port, start; returns the new server.                                *)
start_server(ss, c, p) ==
    Append(ss, [comp |-> c, port |-> p, stage |-> "started", stops |-> 0])

(* A variant of StartGrpcServer: the started server is not kept in         *)
(* self.server.                                                            *)
StartGrpcServerKeepsNoHandle(st, c, o) ==
    IF o = "started"
    THEN [st EXCEPT !.server = start_server(st.server, c, st.comp[c].port)]
    ELSE st

(* DynamicgRPCComponent.start_grpc_server on component c of state st:      *)
(* a new framework, register_function, self.server = start_server(...).    *)
(* There is no test of self.server before the new server is made.          *)
StartGrpcServer(st, c, o) ==
    IF o = "started"
    THEN [st EXCEPT !.server = start_server(st.server, c, st.comp[c].port),
                    !.comp = [@ EXCEPT ![c].server = Len(st.server) + 1]]
    ELSE st

start_grpc_server(c, o) ==
    /\ c \in 1..Len(comp)
    /\ Len(server) < MaxServers
    /\ LET st == StartGrpcServer(State(comp, server, servers), c, o)
       IN  /\ comp' = st.comp
           /\ server' = st.server
           /\ servers' = st.servers
    /\ generated' = register_function(generated, comp[c].func)
    /\ last' = [op |-> "start_grpc_server",
                exc |-> IF o = "started" THEN "none" ELSE o, at |-> c]
    /\ UNCHANGED <<rest, components, call>>

(* A variant of Record: the server is put at the front of the list.       *)
RecordAtFront(st, s) == [st EXCEPT !.servers = <<s>> \o @]

(* self.servers.append(server) *)
Record(st, s) == [st EXCEPT !.servers = Append(@, s)]

(* The outcome start_server has for the k-th component of a start_servers  *)
(* call in which the bind fails at component number fail (0: at none).     *)
OutcomeAt(k, fail) == IF k = fail THEN "RuntimeError" ELSE "started"

(* A variant of StartFrom: the servers are collected first and put into    *)
(* self.servers only when every component has started; a failure leaves    *)
(* the list as it was before the call.                                     *)
RECURSIVE StartFromAllOrNothing(_, _, _)
StartFromAllOrNothing(st, k, fail) ==
    IF k > Len(components) THEN [st |-> st, exc |-> "none", at |-> 0]
    ELSE IF OutcomeAt(k, fail) # "started"
         THEN [st |-> [st EXCEPT !.servers = servers],
               exc |-> OutcomeAt(k, fail), at |-> k]
    ELSE LET st1 == StartGrpcServer(st, components[k], OutcomeAt(k, fail))
         IN  StartFromAllOrNothing(Record(st1, st1.comp[components[k]].server),
                                   k + 1, fail)

(* PipelineOrchestrator.start_servers from the k-th component on: start    *)
(* each component's server and record it; an exception of                  *)
(* start_grpc_server ends the loop with the servers recorded so far.       *)
RECURSIVE StartFrom(_, _, _)
StartFrom(st, k, fail) ==
    IF k > Len(components) THEN [st |-> st, exc |-> "none", at |-> 0]
    ELSE IF OutcomeAt(k, fail) # "started"
         THEN [st |-> st, exc |-> OutcomeAt(k, fail), at |-> k]
    ELSE LET st1 == StartGrpcServer(st, components[k], OutcomeAt(k, fail))
         IN  StartFrom(Record(st1, st1.comp[components[k]].server), k + 1, fail)

start_servers(fail) ==
    /\ LET r == StartFrom(State(comp, server, servers), 1, fail)
       IN  /\ Len(r.st.server) <= MaxServers
           /\ comp' = r.st.comp
           /\ server' = r.st.server
           /\ servers' = r.st.servers
           /\ last' = [op |-> "start_servers", exc |-> r.exc, at |-> r.at]
    /\ generated' = generated
    /\ UNCHANGED <<rest, components, call>>

(* A variant of stop: stop flips the server between serving and stopped.   *)
stopToggles(ss, s) ==
    [ss EXCEPT ![s].stage = IF @ = "started" THEN "stopped" ELSE "started",
               ![s].stops = @ + 1]

(* grpc.Server.stop(0): the server stops serving; on a stopped server it   *)
(* does nothing and does not raise.                                        *)
stop(ss, s) == [ss EXCEPT ![s].stage = "stopped", ![s].stops = @ + 1]

(* A variant of StopFrom: the loop ends one server early.                  *)
RECURSIVE StopFromButLast(_, _)
StopFromButLast(ss, k) ==
    IF k >= Len(servers) THEN ss ELSE StopFromButLast(stop(ss, servers[k]), k + 1)

(* PipelineOrchestrator.stop_servers: stop(0) on every recorded server.    *)
RECURSIVE StopFrom(_, _)
StopFrom(ss, k) ==
    IF k > Len(servers) THEN ss ELSE StopFrom(stop(ss, servers[k]), k + 1)

stop_servers ==
    /\ \A k \in 1..Len(servers) : server[servers[k]].stops < MaxStops
    /\ server' = StopFrom(server, 1)
    /\ last' = [op |-> "stop_servers", exc |-> "none", at |-> 0]
    /\ UNCHANGED <<rest, generated, comp, components, servers, call>>

(* Components are constructed, added, and their servers started and        *)
(* stopped, by one thread.                                                 *)
NextLife ==
    \/ \E a \in ComponentArgs : DynamicgRPCComponent(a.func, a.port)
    \/ \E c \in 1..MaxComps : add_component(c)
    \/ \E c \in 1..MaxComps, o \in BindOutcomes : start_grpc_server(c, o)
    \/ \E fail \in 0..Len(components) : start_servers(fail)
    \/ stop_servers

SpecLife == Init /\ [][NextLife]_vars

----------------------------------------------------------------------------
(* Properties of the server lifecycle, checked under SpecLife.             *)

(* The endpoint of component c is running: it holds a server that was      *)
(* started and not stopped.                                                *)
Running(c) == comp[c].server # None /\ server[comp[c].server].stage = "started"

(* The servers started for component c that have not been stopped.         *)
Listeners(c) ==
    {s \in 1..Len(server) : server[s].comp = c /\ server[s].stage = "started"}

StartsGrpcServer(c) == \E o \in BindOutcomes : start_grpc_server(c, o)

StartsServers == \E fail \in 0..Len(components) : start_servers(fail)

IsPrefix(a, b) == Len(a) <= Len(b) /\ SubSeq(b, 1, Len(a)) = a

(* C6: start_grpc_server on a component whose endpoint is running, called  *)
(* directly or by start_servers, raises AlreadyRunningError and makes no   *)
(* further server.                                                         *)
C6_SecondStartRaises ==
    [][/\ \A c \in 1..Len(comp) :
            (Running(c) /\ StartsGrpcServer(c)) =>
                (last'.exc = "AlreadyRunningError" /\ server' = server)
       /\ (Len(components) >= 1 /\ Running(components[1]) /\ StartsServers) =>
                (last'.exc = "AlreadyRunningError" /\ server' = server)
      ]_vars

(* C7: no component has more than one server that was started for it and   *)
(* not stopped.                                                            *)
C7_OneListenerPerEndpoint ==
    \A c \in 1..Len(comp) : Cardinality(Listeners(c)) <= 1

(* C8: stop_servers, called when no recorded server is running (none was   *)
(* ever started, or all were stopped before), raises nothing and leaves    *)
(* every server and every endpoint as stopped or running as it was.        *)
C8_StopIdempotent ==
    [][(stop_servers /\ \A k \in 1..Len(servers) :
                            server[servers[k]].stage = "stopped") =>
          /\ last'.exc = "none"
          /\ Len(server') = Len(server)
          /\ \A s \in 1..Len(server) : server'[s].stage = server[s].stage
          /\ \A c \in 1..Len(comp) : Running(c)' = Running(c)
          /\ servers' = servers
      ]_vars

(* stop_servers has been called again on servers it had stopped.           *)
C8_Witness ==
    /\ last.op = "stop_servers"
    /\ Len(servers) >= 1
    /\ \A k \in 1..Len(servers) :
         server[servers[k]].stops = 2 /\ server[servers[k]].stage = "stopped"

(* C9, as stated: after stop_servers every recorded server has been asked  *)
(* to stop exactly once.                                                   *)
C9_AskedExactlyOnce ==
    last.op = "stop_servers" =>
        \A k \in 1..Len(servers) : server[servers[k]].stops = 1

(* C9, amended: start_servers records every server it starts and no        *)
(* recorded server is ever dropped; each stop_servers call asks every      *)
(* recorded server to stop exactly once, leaves each of them stopped, and  *)
(* asks no other server.                                                   *)
C9_EachCallStopsEachOnce ==
    [][/\ IsPrefix(servers, servers')
       /\ StartsServers =>
            \A s \in (Len(server) + 1)..Len(server') :
                \E k \in 1..Len(servers') : servers'[k] = s
       /\ stop_servers =>
            /\ Len(server') = Len(server)
            /\ \A s \in 1..Len(server) :
                 IF \E k \in 1..Len(servers) : servers[k] = s
                 THEN /\ server'[s].stops = server[s].stops + 1
                      /\ server'[s].stage = "stopped"
                 ELSE server'[s] = server[s]
      ]_vars

(* Two servers were started by start_servers and a stop_servers call has   *)
(* stopped both.                                                           *)
C9_Witness ==
    /\ last.op = "stop_servers"
    /\ Len(servers) = 2
    /\ \A k \in 1..2 :
         server[servers[k]].stops = 1 /\ server[servers[k]].stage = "stopped"

(* C10, as stated: after a start_servers call that raised nothing (and    *)
(* found no endpoint running already) the servers list holds, at each      *)
(* position k up to the number of components, the server of the k-th added *)
(* component.                                                              *)
C10_KthServerOfKthComponent ==
    (/\ last.op = "start_servers"
     /\ last.exc = "none"
     /\ \A c \in 1..Len(comp) : Cardinality(Listeners(c)) <= 1) =>
        \A k \in 1..Len(components) :
            k <= Len(servers) /\ servers[k] = comp[components[k]].server

(* C10, amended: a start_servers call starts the components in the order   *)
(* they were added and appends their servers in that order: the j-th       *)
(* server the call appends is the new server of the j-th component, and a  *)
(* call that raises nothing appends one for every component (a call that   *)
(* raises at component k appends those of the components before k).        *)
C10_AppendsInComponentOrder ==
    [][StartsServers =>
          LET old == Len(servers)
              n == Len(servers') - old
          IN  /\ IsPrefix(servers, servers')
              /\ n = IF last'.exc = "none" THEN Len(components) ELSE last'.at - 1
              /\ \A j \in 1..n :
                   /\ servers'[old + j] = Len(server) + j
                   /\ server'[servers'[old + j]].comp = components[j]
                   /\ server'[servers'[old + j]].stage = "started"
      ]_vars

(* start_servers has started the servers of a pipeline of two different    *)
(* components.                                                             *)
C10_Witness ==
    /\ last.op = "start_servers"
    /\ last.exc = "none"
    /\ Len(components) = 2
    /\ components[1] # components[2]
    /\ Len(servers) = 2
    /\ server[servers[1]].comp # server[servers[2]].comp

----------------------------------------------------------------------------
(* Call chains.  example_usage adds its components in one statement,       *)
(* pipeline.add_component(a).add_component(b): each call after the first   *)
(* is made on what the call before it returned.  The repository has two    *)
(* PipelineOrchestrator classes, the package's (apifunc.py) and the one of *)
(* example2.py; both append, and they differ in what they return.          *)

OrchestratorClasses == {"apifunc.py", "example2.py"}

(* A variant of add_component_returns: the method has no return statement  *)
(* in either class.                                                        *)
add_component_returns_nothing(k) == "None"

(* What add_component evaluates to: "return self" in apifunc.py; the       *)
(* method of example2.py ends without a return statement, so None.         *)
add_component_returns(k) == IF k = "apifunc.py" THEN "self" ELSE "None"

(* One call of a chain: add_component(c) on the receiver the chain has     *)
(* reached.  On None the attribute lookup raises AttributeError, which     *)
(* ends the statement.                                                     *)
chained_add_component(c) ==
    /\ c \in 1..Len(comp)
    /\ Len(components) < MaxStages
    /\ IF stmt.receiver = "self"
       THEN /\ components' = append(components, c)
            /\ stmt' = [receiver |-> add_component_returns(orchestrator_class),
                        args |-> Append(stmt.args, c)]
            /\ last' = [op |-> "add_component", exc |-> "none",
                        at |-> Len(components) + 1]
       ELSE /\ components' = components
            /\ stmt' = NoStmt
            /\ last' = [op |-> "add_component", exc |-> "AttributeError", at |-> 0]
    /\ UNCHANGED <<standalone, orchestrator_class, invocation, pool, generated, comp,
                   lifecycle, call>>

(* The statement ends; the next one starts on the orchestrator again.      *)
end_statement ==
    /\ stmt # NoStmt
    /\ stmt' = NoStmt
    /\ UNCHANGED <<standalone, orchestrator_class, invocation, pool, generated, comp,
                   components, lifecycle, call, last>>

InitChain ==
    /\ Fresh
    /\ orchestrator_class \in OrchestratorClasses
    /\ invocation = NoInvocation
    /\ pool = NoPool
    /\ StandaloneIdle

NextChain ==
    \/ \E a \in ComponentArgs : DynamicgRPCComponent(a.func, a.port)
    \/ \E c \in 1..MaxComps : chained_add_component(c)
    \/ end_statement

SpecChain == InitChain /\ [][NextChain]_vars

IsSuffix(a, b) == Len(a) <= Len(b) /\ SubSeq(b, Len(b) - Len(a) + 1, Len(b)) = a

(* The calls of the statement so far were all made on the orchestrator,    *)
(* the next one will be too, and the arguments of the chain are the last   *)
(* stages of the pipeline, in the order of the chain.                      *)
ChainHolds ==
    /\ stmt.receiver = "self"
    /\ last.exc # "AttributeError"
    /\ IsSuffix(stmt.args, components)

(* C11, as claimed: add_component returns the orchestrator it was called   *)
(* on, whichever PipelineOrchestrator class it is, so a chain of           *)
(* add_component calls is valid and appends its arguments in order.        *)
C11_AddComponentChains == ChainHolds

(* C11, amended: add_component of the package's PipelineOrchestrator       *)
(* (apifunc.py) returns the orchestrator it was called on, so a chain      *)
(* a.add_component(c1).add_component(c2) is valid and leaves the stages    *)
(* [c1, c2] at the end of the list.                                        *)
C11_PackageAddComponentChains ==
    orchestrator_class = "apifunc.py" => ChainHolds

(* A chain of two calls with two different components has been evaluated   *)
(* on the package's orchestrator and the stages are its arguments.         *)
C11_Witness ==
    /\ orchestrator_class = "apifunc.py"
    /\ Len(stmt.args) = 2
    /\ stmt.args[1] # stmt.args[2]
    /\ components = stmt.args
    /\ stmt.receiver = "self"

----------------------------------------------------------------------------
(* The orchestrator used by one caller: components are constructed and     *)
(* added, the servers started and stopped, and execute_pipeline is called  *)
(* and runs to its end before the caller does anything else.               *)

MainThread == "t1"

(* The for loop of execute_pipeline from the call's position to its end.   *)
RECURSIVE RunLoop(_, _)
RunLoop(calls, t) ==
    IF ~HasNext(calls[t].idx)
    THEN [calls EXCEPT ![t].status = "returned",
                       ![t].result = ReturnValue(calls[t])]
    ELSE LET c == NextComponent(calls[t].idx)
             r == process(c, calls[t].current_data)
         IN  IF r.ok THEN RunLoop(StoreCurrent(calls, t, r, c), t)
                     ELSE Propagate(calls, t, r, c)

(* A variant of execute_pipeline: the loop takes the stages off the list   *)
(* as it runs them.                                                        *)
execute_pipeline_consuming(t, x) ==
    /\ call[t].status # "running"
    /\ call' = RunLoop([call EXCEPT ![t] =
                          [status |-> "running", input |-> x,
                           current_data |-> InitialData(x), idx |-> 0,
                           log |-> <<>>, result |-> <<>>, error |-> NoExc]], t)
    /\ last' = [op |-> "execute_pipeline", exc |-> call'[t].error,
                at |-> IF call'[t].error = NoExc THEN 0 ELSE Len(call'[t].log)]
    /\ components' = SubSeq(components, Len(call'[t].log) + 1, Len(components))
    /\ UNCHANGED <<rest, generated, comp, lifecycle>>

(* PipelineOrchestrator.execute_pipeline(initial_data), from call to       *)
(* return or exception.                                                    *)
execute_pipeline(t, x) ==
    /\ call[t].status # "running"
    /\ call' = RunLoop([call EXCEPT ![t] =
                          [status |-> "running", input |-> x,
                           current_data |-> InitialData(x), idx |-> 0,
                           log |-> <<>>, result |-> <<>>, error |-> NoExc]], t)
    /\ last' = [op |-> "execute_pipeline", exc |-> call'[t].error,
                at |-> IF call'[t].error = NoExc THEN 0 ELSE Len(call'[t].log)]
    /\ UNCHANGED <<rest, generated, comp, components, lifecycle>>

NextOrch ==
    \/ \E a \in ComponentArgs : DynamicgRPCComponent(a.func, a.port)
    \/ \E c \in 1..MaxComps : add_component(c)
    \/ \E x \in Inputs : execute_pipeline(MainThread, x)
    \/ \E fail \in 0..Len(components) : start_servers(fail)
    \/ stop_servers

SpecOrch == Init /\ [][NextOrch]_vars

(* C12: the stage list is append-only.  A step of the orchestrator either  *)
(* leaves the list of stages as it is, or is an add_component(c) that      *)
(* puts c at its end; and every add_component(c) does put c at its end.    *)
(* So the list is at any time the arguments of the add_component calls in  *)
(* call order.                                                             *)
C12_StagesAppendOnly ==
    [][/\ \/ components' = components
          \/ \E c \in 1..MaxComps :
                add_component(c) /\ components' = Append(components, c)
       /\ \A c \in 1..MaxComps :
             add_component(c) => components' = Append(components, c)]_vars

(* Two different stages were added, the servers started and stopped, and   *)
(* the pipeline executed: the stages are still the two, in order.          *)
C12_Witness ==
    /\ Len(components) = 2
    /\ components[1] # components[2]
    /\ Len(servers) = 2
    /\ \A k \in 1..Len(servers) : server[servers[k]].stage = "stopped"
    /\ last.op = "execute_pipeline"
    /\ Len(call[MainThread].log) = 2

----------------------------------------------------------------------------
(* One call of process, taken by itself.  The package has two              *)
(* DynamicgRPCComponent classes, in apifunc.py and in components.py; each  *)
(* wraps a function and has a process method that calls it.                *)
(*                                                                         *)
(* A wrapped function is given by the names of its parameters, all         *)
(* required.  An input value is a dict (its items, a set of <<key, value>> *)
(* pairs), a str, a list, an int or None.  The outcome of a call says how  *)
(* the function was entered: with which positional arguments and which     *)
(* keyword arguments, or not at all, with the exception of the call.       *)

ComponentFiles == {"apifunc.py", "components.py"}

Signatures == {<<>>, <<"a">>, <<"x">>, <<"a", "b">>}

Keys == {"a", "b"}
Vals == {1, 2}

Dicts ==
    {[kind |-> "dict", items |-> {<<k, f[k]>> : k \in K}] :
        K \in SUBSET Keys, f \in [Keys -> Vals]}

Scalars == {[kind |-> k, items |-> {}] : k \in {"str", "list", "int", "None"}}

Values == Dicts \cup Scalars

Names(params) == {params[i] : i \in 1..Len(params)}

TypeError == [state |-> "raised", exc |-> "TypeError", called |-> FALSE,
              positional |-> <<>>, keyword |-> {}]

Entered(pos, kw) == [state |-> "returned", exc |-> "none", called |-> TRUE,
                     positional |-> pos, keyword |-> kw]

(* func(v): one positional argument; binds when the function has exactly   *)
(* one parameter, TypeError otherwise.                                     *)
CallWith(params, v) ==
    IF Len(params) = 1 THEN Entered(<<v>>, {}) ELSE TypeError

(* The call of components.py line 58, which unpacks the dict d into        *)
(* keyword arguments, one per item of d: binds when the keys are exactly   *)
(* the parameters, TypeError on a missing or an unexpected name.           *)
CallWithKeywords(params, d) ==
    IF {it[1] : it \in d.items} = Names(params)
    THEN Entered(<<>>, d.items) ELSE TypeError

(* isinstance(input_data, dict) *)
isinstance_dict(v) == v.kind = "dict"

(* components.py, DynamicgRPCComponent.process *)
process_components(params, input_data) ==
    LET param_count == Len(params) IN
    IF param_count = 1 /\ isinstance_dict(input_data)
    THEN CallWith(params, input_data)
    ELSE IF param_count > 1 /\ isinstance_dict(input_data)
    THEN CallWithKeywords(params, input_data)
    ELSE CallWith(params, input_data)

(* apifunc.py, DynamicgRPCComponent.process: return self.transform_func(data) *)
process_apifunc(params, data) == CallWith(params, data)

process_of(file, params, input_data) ==
    IF file = "components.py" THEN process_components(params, input_data)
                              ELSE process_apifunc(params, input_data)

InitProcess ==
    /\ Fresh
    /\ orchestrator_class = "apifunc.py"
    /\ invocation \in {[file |-> f, params |-> ps, input_data |-> v,
                         outcome |-> [state |-> "none"]] :
                           f \in ComponentFiles, ps \in Signatures, v \in Values}
    /\ pool = NoPool
    /\ StandaloneIdle

(* component.process(input_data) *)
process_call ==
    /\ invocation.outcome.state = "none"
    /\ invocation' = [invocation EXCEPT !.outcome =
                         process_of(invocation.file, invocation.params,
                                    invocation.input_data)]
    /\ UNCHANGED <<standalone, orchestrator_class, stmt, pool, generated, comp, components,
                   lifecycle, call, last>>

NextProcess == process_call

SpecProcess == InitProcess /\ [][NextProcess]_vars

Done == invocation.outcome.state # "none"

(* The function was entered with the whole input as its one argument, or   *)
(* the call raised TypeError because the function does not take one.       *)
PassedVerbatim ==
    IF Len(invocation.params) = 1
    THEN /\ invocation.outcome.called
         /\ invocation.outcome.positional = <<invocation.input_data>>
         /\ invocation.outcome.keyword = {}
    ELSE ~invocation.outcome.called /\ invocation.outcome.exc = "TypeError"

(* The function was entered with one named argument per key of the         *)
(* mapping, or the call raised TypeError because the keys are not the      *)
(* parameters.                                                             *)
DestructuredByKey ==
    IF {it[1] : it \in invocation.input_data.items} = Names(invocation.params)
    THEN /\ invocation.outcome.called
         /\ invocation.outcome.positional = <<>>
         /\ invocation.outcome.keyword = invocation.input_data.items
    ELSE ~invocation.outcome.called /\ invocation.outcome.exc = "TypeError"

(* C13: in every DynamicgRPCComponent class of the package, process gives  *)
(* a one-parameter function a mapping whole, destructures a mapping into   *)
(* named arguments for a function of more than one parameter, and passes   *)
(* any other input verbatim as the sole argument.                          *)
C13_InputDispatch ==
    Done =>
        IF invocation.input_data.kind = "dict" /\ Len(invocation.params) > 1
        THEN DestructuredByKey
        ELSE PassedVerbatim

(* C14: an input that is not a mapping, a string or a sequence is          *)
(* rejected: the call ends with an error (the claim's ValidationError) and *)
(* the wrapped function has not been called.                               *)
C14_RejectsUnstructuredInput ==
    (Done /\ invocation.input_data.kind \notin {"dict", "str", "list"}) =>
        (~invocation.outcome.called /\ invocation.outcome.state = "raised")

----------------------------------------------------------------------------
(* process and the component's server, checked under SpecOrch.             *)

(* The stages that the finished call rec went through, in order.           *)
StagesOf(rec) == [k \in 1..Len(rec.log) |-> rec.log[k].comp]

(* The k-th stage of the finished call rec returned an output.             *)
ProducedOutput(rec, k) == k < Len(rec.log) \/ rec.status = "returned"

(* The transform functions of the stages from the k-th on, applied one     *)
(* after the other to data.                                                *)
RECURSIVE Applied(_, _, _)
Applied(stages, k, data) ==
    IF k > Len(stages) THEN [ok |-> TRUE, value |-> data]
    ELSE LET r == transform_func(comp[stages[k]].func, data)
         IN  IF r.ok THEN Applied(stages, k + 1, r.value)
                     ELSE [ok |-> FALSE, value |-> <<>>]

(* C15, as claimed: process is only valid while the endpoint is running.   *)
(* Right after an execute_pipeline call, every stage that returned an      *)
(* output has a server that is serving.                                    *)
C15_OutputOnlyWhileRunning ==
    last.op = "execute_pipeline" =>
        \A k \in 1..Len(call[MainThread].log) :
            ProducedOutput(call[MainThread], k)
                => Running(call[MainThread].log[k].comp)

(* C15, amended: process does not look at the component's server.  On a    *)
(* component never started, serving or stopped alike it applies the        *)
(* transform function: a finished execute_pipeline call returned the       *)
(* functions of its stages applied in order to its input, or raised        *)
(* because one of them raised.                                             *)
C15_OutputWhateverTheServer ==
    LET rec == call[MainThread]
        r == Applied(StagesOf(rec), 1, rec.input)
    IN  rec.status \in {"returned", "raised"} =>
            /\ r.ok <=> rec.status = "returned"
            /\ r.ok => rec.result = r.value
            /\ ~r.ok => rec.error = "ValueError"

(* An execute_pipeline call has just returned the output of two stages:    *)
(* the server of the first was started and stopped, the second never had   *)
(* a server.                                                               *)
C15_Witness ==
    /\ last.op = "execute_pipeline"
    /\ call[MainThread].status = "returned"
    /\ Len(call[MainThread].log) = 2
    /\ LET c1 == call[MainThread].log[1].comp
           c2 == call[MainThread].log[2].comp
       IN  /\ comp[c1].server # None
           /\ server[comp[c1].server].stage = "stopped"
           /\ comp[c2].server = None
    /\ Len(call[MainThread].result) = Len(call[MainThread].input) + 2

----------------------------------------------------------------------------
(* The component's server handle, checked under SpecLife.                  *)

(* The servers that were started for component c, serving or stopped.      *)
ServersOf(c) == {s \in 1..Len(server) : server[s].comp = c}

Latest(S) == CHOOSE s \in S : \A u \in S : u <= s

(* C16, as claimed: a component holds a server handle only while it is     *)
(* running: self.server is None after construction, set after start, and   *)
(* None again once the server has been stopped.                            *)
C16_HandleOnlyWhileRunning ==
    \A c \in 1..Len(comp) :
        comp[c].server # None => server[comp[c].server].stage = "started"

(* C16, amended: self.server is None from construction until the first     *)
(* start of the component; from then on it is the server the component's   *)
(* latest start made, which serves until a stop_servers call stops it and  *)
(* which self.server keeps referring to after that.                        *)
C16_HandleIsLatestServer ==
    \A c \in 1..Len(comp) :
        IF ServersOf(c) = {}
        THEN comp[c].server = None
        ELSE /\ comp[c].server = Latest(ServersOf(c))
             /\ server[comp[c].server].stage = "started"
                    <=> server[comp[c].server].stops = 0

(* One component was constructed and never started, another was started    *)
(* and stopped and still holds its server.                                 *)
C16_Witness ==
    \E c, d \in 1..Len(comp) :
        /\ comp[c].server = None
        /\ ServersOf(c) = {}
        /\ comp[d].server # None
        /\ server[comp[d].server].stage = "stopped"

(* C17: constructing a component for a function generates and compiles    *)
(* the function's contract before the generated module is loaded, so the  *)
(* constructor succeeds whether or not <name>_pb2_grpc.py was generated    *)
(* before.                                                                 *)
C17_ConstructionGeneratesFirst ==
    last.op = "__init__" => last.exc = "none"

----------------------------------------------------------------------------
(* Ports, checked under SpecLife.                                          *)

(* A serving server of this program listens on port p.                     *)
PortInUse(p) ==
    \E s \in 1..Len(server) : server[s].stage = "started" /\ server[s].port = p

(* C18: starting a component whose port is already in use fails (the       *)
(* claim's BindError): the call raises and start_server returns no started *)
(* server.                                                                 *)
C18_StartOnUsedPortFails ==
    [][\A c \in 1..MaxComps :
          (c <= Len(comp) /\ PortInUse(comp[c].port) /\ StartsGrpcServer(c))
              => (last'.exc # "none" /\ server' = server)]_vars

(* C19: no two serving servers listen on the same port.                    *)
C19_PortsExclusive ==
    \A s, u \in 1..Len(server) :
        (s # u /\ server[s].stage = "started" /\ server[u].stage = "started")
            => server[s].port # server[u].port

----------------------------------------------------------------------------
(* The worker pool of one server, taken by itself.  _create_server makes   *)
(* the server on a ThreadPoolExecutor; gRPC hands every inbound Transform  *)
(* request to the executor, which queues it until one of its at most       *)
(* max_workers threads is free to run the handler.                         *)

MaxRequests == 12   \* requests received and not yet answered

(* max_workers=10, the literal of _create_server. *)
MaxWorkers == 10

(* The pool size a caller wants: none, or a number.  ApiFuncConfig has the *)
(* attributes proto_dir, generated_dir and port; a wanted pool size can    *)
(* only be put on the config object as one more attribute.                 *)
AskedSizes == {None, 1, 2}

(* ApiFuncFramework._create_server: the number of workers of the server's  *)
(* executor.  The method reads nothing of the config.                      *)
_create_server(asked) == MaxWorkers

InitPool ==
    /\ Fresh
    /\ orchestrator_class = "apifunc.py"
    /\ invocation = NoInvocation
    /\ \E a \in AskedSizes :
          pool = [asked |-> a, max_workers |-> _create_server(a),
                  queued |-> 0, in_flight |-> 0]
    /\ StandaloneIdle

(* A client calls Transform: the request is submitted to the executor.     *)
submit ==
    /\ pool.queued + pool.in_flight < MaxRequests
    /\ pool' = [pool EXCEPT !.queued = @ + 1]
    /\ UNCHANGED <<standalone, orchestrator_class, stmt, invocation, generated, comp,
                   components, lifecycle, call, last>>

(* A variant of HasFreeWorker: the executor starts a thread for every      *)
(* request.                                                                *)
HasFreeWorkerAlways(p) == TRUE

(* ThreadPoolExecutor: a thread is free, or fewer than max_workers threads *)
(* exist and one more is started.                                          *)
HasFreeWorker(p) == p.in_flight < p.max_workers

(* A free worker thread of the executor takes a queued request and runs    *)
(* Servicer.Transform on it.                                               *)
worker_takes ==
    /\ pool.queued > 0
    /\ HasFreeWorker(pool)
    /\ pool' = [pool EXCEPT !.queued = @ - 1, !.in_flight = @ + 1]
    /\ UNCHANGED <<standalone, orchestrator_class, stmt, invocation, generated, comp,
                   components, lifecycle, call, last>>

(* Servicer.Transform returns or raises; its worker is free again.         *)
Transform_ends ==
    /\ pool.in_flight > 0
    /\ pool' = [pool EXCEPT !.in_flight = @ - 1]
    /\ UNCHANGED <<standalone, orchestrator_class, stmt, invocation, generated, comp,
                   components, lifecycle, call, last>>

NextPool ==
    \/ submit
    \/ worker_takes
    \/ Transform_ends

SpecPool == InitPool /\ [][NextPool]_vars

----------------------------------------------------------------------------
(* One ApiFuncFramework object, used directly: functions are registered    *)
(* (the contract is written and compiled) and servers are created and      *)
(* started.  Names and other strings the framework computes with are       *)
(* sequences of characters.                                                *)

MaxNameLen == 3     \* characters of a function name
MaxRegs == 2        \* register_function calls on the framework

Lower == {"a", "b"}
Upper == {"A", "B"}
Letters == Lower \cup Upper

(* The characters function names are made of.                              *)
Chars == {"a", "B", "_", "2"}

(* str.upper and str.lower on one character.                               *)
upper(ch) == CASE ch = "a" -> "A" [] ch = "b" -> "B" [] OTHER -> ch
lower(ch) == CASE ch = "A" -> "a" [] ch = "B" -> "b" [] OTHER -> ch

(* str.title: a letter that starts the string or follows a character that  *)
(* is not a letter is made upper case, every other letter lower case.      *)
title(str) ==
    [i \in 1..Len(str) |->
        IF str[i] \in Letters
        THEN IF i = 1 \/ str[i - 1] \notin Letters THEN upper(str[i])
                                                   ELSE lower(str[i])
        ELSE str[i]]

(* str.replace(old, ""), for a one-character old.                          *)
remove(str, old) == SelectSeq(str, LAMBDA ch : ch # old)

(* The Python identifiers of up to n characters.                           *)
Identifiers(n) ==
    {str \in UNION {[1..k -> Chars] : k \in 1..n} : str[1] # "2"}

(* A variant of service_name: the name carries the suffix "Service".       *)
service_name_suffixed(name) ==
    remove(title(name), "_") \o <<"S", "e", "r", "v", "i", "c", "e">>

(* service_name = func.__name__.title().replace("_", "") *)
service_name(name) == remove(title(name), "_")

Servicer == <<"S", "e", "r", "v", "i", "c", "e", "r">>
add_ == <<"a", "d", "d", "_">>
_to_server == <<"_", "t", "o", "_", "s", "e", "r", "v", "e", "r">>

(* The names _add_servicer_to_server looks up in the generated module.     *)
servicer_class_name(name) == remove(title(name), "_") \o Servicer
add_to_server_func_name(name) ==
    add_ \o remove(title(name), "_") \o Servicer \o _to_server

(* A variant of _generate_proto_content: the text depends on what the      *)
(* framework has registered so far.                                        *)
_generate_proto_content_numbered(fw, func) ==
    [syntax |-> "proto3",
     package |-> IF fw.registered_functions = {} THEN "apifunc" ELSE "apifunc2",
     service |-> service_name(func.name), rpc |-> "Transform"]

(* ApiFuncFramework._generate_proto_content: the text of the .proto file,  *)
(* by its parts.                                                           *)
_generate_proto_content(fw, func) ==
    [syntax |-> "proto3", package |-> "apifunc",
     service |-> service_name(func.name), rpc |-> "Transform"]

(* What protoc's Python plugin puts into <name>_pb2_grpc.py for a contract: *)
(* the servicer class and the add function, named after the service.       *)
protoc_generates(content) ==
    [servicer |-> content.service \o Servicer,
     add |-> add_ \o content.service \o Servicer \o _to_server]

(* protoc accepts the contract only if the service name is an identifier.  *)
ValidServiceName(str) == Len(str) >= 1 /\ str[1] \in Letters

(* How grpc_tools.protoc.main can end: it returns its exit code, or it     *)
(* leaves with SystemExit carrying the code.                               *)
ProtocOutcomes ==
    {[how |-> h, code |-> c] : h \in {"return", "SystemExit"}, c \in {0, 1}}

(* A variant of setitem: a key that is present keeps its value.            *)
setdefault(d, k, v) ==
    IF \E it \in d : it[1] = k THEN d ELSE d \cup {<<k, v>>}

(* d[k] = v on a dict given as its set of items.                           *)
setitem(d, k, v) == {it \in d : it[1] # k} \cup {<<k, v>>}

(* open(path, "w") and write: the file of that name is replaced.           *)
write(files, name, x) == {it \in files : it[1] # name} \cup {<<name, x>>}

(* A variant of _compile_proto_raises: any non-zero code raises.           *)
_compile_proto_raises_on_nonzero(out) ==
    IF out.code # 0 THEN "RuntimeError" ELSE "none"

(* _compile_proto: "except SystemExit as e: if e.code != 0: raise          *)
(* RuntimeError"; what main returns is not looked at.                      *)
_compile_proto_raises(out) ==
    IF out.how = "SystemExit" /\ out.code # 0 THEN "RuntimeError" ELSE "none"

NoServer == [ports |-> <<>>, started |-> FALSE, made |-> FALSE]

(* grpc.server(...): a server with no port and not started.                *)
NewServer == [ports |-> <<>>, started |-> FALSE, made |-> TRUE]

(* The functions of a program that registers two functions of one name,    *)
(* and one of another name.                                                *)
FrameworkFuncs ==
    {[name |-> <<"a">>, params |-> <<"a">>],
     [name |-> <<"a">>, params |-> <<"a", "b">>],
     [name |-> <<"a", "_", "b">>, params |-> <<"a">>]}

(* ApiFuncFramework(config): nothing registered, no file written.          *)
NewFramework(fs, port) ==
    [funcs |-> fs, port |-> port, registered_functions |-> {},
     proto |-> {}, modules |-> {}, history |-> <<>>, server |-> NoServer,
     last |-> [op |-> "none", exc |-> "none"]]

InitFramework ==
    /\ Fresh
    /\ generated = {}
    /\ orchestrator_class = "apifunc.py"
    /\ invocation = NoInvocation
    /\ pool = NoPool
    /\ ProgramsIdle
    /\ \E port \in Ports :
         \E fs \in {FrameworkFuncs} \cup
                   {{[name |-> n, params |-> <<"a">>]} : n \in Identifiers(MaxNameLen)} :
            framework = NewFramework(fs, port)

(* ApiFuncFramework.register_function(func, proto_dir, generated_dir),     *)
(* with the outcome out of the protoc run.                                 *)
register_function_call(func, out) ==
    /\ func \in framework.funcs
    /\ Len(framework.history) < MaxRegs
    /\ out.code = 0 => ValidServiceName(service_name(func.name))
    /\ LET content == _generate_proto_content(framework, func)
           exc == _compile_proto_raises(out)
       IN  framework' =
             [framework EXCEPT
                !.registered_functions = setitem(@, func.name, func),
                !.proto = write(@, func.name, content),
                !.modules = IF out.code = 0
                            THEN write(@, func.name, protoc_generates(content))
                            ELSE @,
                !.history = Append(@, [func |-> func, out |-> out,
                                       content |-> content, exc |-> exc,
                                       before |-> framework.registered_functions]),
                !.last = [op |-> "register_function", exc |-> exc]]
    /\ UNCHANGED <<orchestrator_class, stmt, invocation, pool, generated, comp,
                   components, lifecycle, call, last, programs>>

(* ApiFuncFramework._create_server() *)
_create_server_call ==
    /\ framework.funcs # {}
    /\ framework' = [framework EXCEPT !.server = NewServer,
                                      !.last = [op |-> "_create_server",
                                                exc |-> "none"]]
    /\ UNCHANGED <<orchestrator_class, stmt, invocation, pool, generated, comp,
                   components, lifecycle, call, last, programs>>

(* _add_servicer_to_server: executes <name>_pb2_grpc.py and gets the       *)
(* servicer class and the add function from it by name.                    *)
_add_servicer_to_server(fw, func) ==
    LET found == {it \in fw.modules : it[1] = func.name}
    IN  IF found = {} THEN "FileNotFoundError"
        ELSE LET module == (CHOOSE it \in found : TRUE)[2]
             IN  IF /\ servicer_class_name(func.name) = module.servicer
                    /\ add_to_server_func_name(func.name) = module.add
                 THEN "none" ELSE "AttributeError"

(* ApiFuncFramework.start_server(func, proto_dir, generated_dir, port),    *)
(* with the outcome bind of add_insecure_port.                             *)
start_server_call(func, port, bind) ==
    /\ func \in framework.funcs
    /\ LET added == _add_servicer_to_server(framework, func)
           exc == IF added # "none" THEN added
                  ELSE IF bind # "started" THEN bind ELSE "none"
       IN  framework' =
             [framework EXCEPT
                !.server = IF exc = "none"
                           THEN [NewServer EXCEPT !.ports = <<port>>,
                                                  !.started = TRUE]
                           ELSE NewServer,
                !.last = [op |-> "start_server", exc |-> exc]]
    /\ UNCHANGED <<orchestrator_class, stmt, invocation, pool, generated, comp,
                   components, lifecycle, call, last, programs>>

NextFramework ==
    \/ \E f \in framework.funcs, out \in ProtocOutcomes : register_function_call(f, out)
    \/ _create_server_call
    \/ \E f \in framework.funcs, port \in Ports, bind \in BindOutcomes :
          start_server_call(f, port, bind)

SpecFramework == InitFramework /\ [][NextFramework]_vars

----------------------------------------------------------------------------
(* Properties of the framework, checked under SpecFramework.               *)

Registrations == 1..Len(framework.history)

(* C21: whenever protoc ends with a non-zero code, _compile_proto raises,  *)
(* and with it register_function: no registration whose compilation        *)
(* failed completes without an error.                                      *)
C21_NonZeroExitRaises ==
    \A i \in Registrations :
        framework.history[i].out.code # 0 => framework.history[i].exc # "none"

(* The registrations of a function named name so far.                      *)
RegistrationsOf(name) ==
    {i \in Registrations : framework.history[i].func.name = name}

Last(S) == CHOOSE i \in S : \A j \in S : j <= i

(* C22: registering a name again raises no error and overwrites in place.  *)
(* The registry has no entry for a name never registered and exactly one   *)
(* for a registered name: the function of its most recent registration;    *)
(* the contract file of the name is the one that registration wrote; and   *)
(* a registration raises only when protoc left with a non-zero SystemExit, *)
(* never because the name was registered before.                           *)
C22_RegistryOverwrites ==
    /\ \A f \in framework.funcs :
         LET regs == RegistrationsOf(f.name)
             entries == {it \in framework.registered_functions : it[1] = f.name}
             files == {it \in framework.proto : it[1] = f.name}
         IN  IF regs = {}
             THEN entries = {} /\ files = {}
             ELSE /\ entries = {<<f.name, framework.history[Last(regs)].func>>}
                  /\ files = {<<f.name, framework.history[Last(regs)].content>>}
    /\ \A i \in Registrations :
         framework.history[i].exc # "none" =>
            framework.history[i].out = [how |-> "SystemExit", code |-> 1]

(* A name was registered twice, for two different functions, without an   *)
(* error; the registry holds the second.                                   *)
C22_Witness ==
    /\ Len(framework.history) = 2
    /\ framework.history[1].func.name = framework.history[2].func.name
    /\ framework.history[1].func # framework.history[2].func
    /\ framework.history[2].exc = "none"
    /\ framework.registered_functions =
          {<<framework.history[2].func.name, framework.history[2].func>>}

(* C23: contract generation is deterministic.  Any two registrations of    *)
(* functions with the same name and parameters wrote the same contract     *)
(* text, whatever the framework had registered before each.                *)
C23_SameFunctionSameContract ==
    \A i, j \in Registrations :
        (/\ framework.history[i].func.name = framework.history[j].func.name
         /\ framework.history[i].func.params = framework.history[j].func.params)
            => framework.history[i].content = framework.history[j].content

(* One function was registered twice, first on an empty registry and then  *)
(* on one that held it.                                                    *)
C23_Witness ==
    /\ Len(framework.history) = 2
    /\ framework.history[1].func = framework.history[2].func
    /\ framework.history[1].before = {}
    /\ framework.history[2].before # {}

(* str.capitalize: the first character upper case, the others lower case.  *)
capitalize(str) ==
    [i \in 1..Len(str) |-> IF i = 1 THEN upper(str[i]) ELSE lower(str[i])]

Service == <<"S", "e", "r", "v", "i", "c", "e">>

(* The servicer class and the add function of every generated module have  *)
(* the names that start_server looks up for the module's function, and no  *)
(* start_server call ended with a failed lookup.                           *)
LookupsMatch ==
    /\ \A it \in framework.modules :
         /\ it[2].servicer = servicer_class_name(it[1])
         /\ it[2].add = add_to_server_func_name(it[1])
    /\ framework.last.exc # "AttributeError"

(* C24, as claimed: the service name of a generated contract is the        *)
(* capitalized function name followed by "Service", and the names looked   *)
(* up at server start are derived from the same service name.              *)
C24_ServiceNameHasSuffix ==
    /\ \A it \in framework.proto : it[2].service = capitalize(it[1]) \o Service
    /\ LookupsMatch

(* C24, amended: the service name of a generated contract is the function  *)
(* name in title case with its underscores removed, without a suffix, and  *)
(* the names looked up at server start are derived from the same service   *)
(* name.                                                                   *)
C24_ServiceNameIsTitledName ==
    /\ \A it \in framework.proto : it[2].service = remove(title(it[1]), "_")
    /\ LookupsMatch

(* A server was started for a function whose name has an underscore        *)
(* between two letters: title case and capitalize differ on it.            *)
C24_Witness ==
    /\ framework.last = [op |-> "start_server", exc |-> "none"]
    /\ framework.server.started
    /\ \E it \in framework.modules :
         /\ Len(it[1]) = 3 /\ it[1][2] = "_" /\ it[1][3] \in Letters
         /\ capitalize(it[1]) # remove(title(it[1]), "_")

(* C25: _create_server returns the server it created with the insecure     *)
(* port of the framework's configuration added to it exactly once.         *)
C25_CreateServerAddsPort ==
    framework.last.op = "_create_server" =>
        (framework.server.made /\ framework.server.ports = <<framework.port>>)

----------------------------------------------------------------------------
(* More properties of the orchestrator, checked under SpecOrch.            *)

(* C26: execute_pipeline changes nothing in the orchestrator: the list of  *)
(* stages and the list of servers, and the components and servers          *)
(* themselves, are after the call what they were before it, whether the    *)
(* call returns or a stage raises.                                         *)
C26_ExecuteLeavesOrchestrator ==
    [][\A x \in Inputs :
          execute_pipeline(MainThread, x) =>
              /\ components' = components
              /\ servers' = servers
              /\ comp' = comp
              /\ server' = server]_vars

(* An execute_pipeline call on two stages has just failed at a stage,      *)
(* with servers recorded.                                                  *)
C26_Witness ==
    /\ last.op = "execute_pipeline"
    /\ last.exc = "ValueError"
    /\ call[MainThread].status = "raised"
    /\ Len(components) = 2
    /\ Len(servers) >= 1

Recorded(s) == \E k \in 1..Len(servers) : servers[k] = s

(* C27: every server start_servers has started is in the servers list.     *)
(* After a start_servers call that failed at component k, the servers of   *)
(* the components before k are running and recorded; and after a           *)
(* stop_servers call no server is running.                                 *)
C27_StartedServersRecorded ==
    /\ \A s \in 1..Len(server) : Recorded(s)
    /\ (last.op = "start_servers" /\ last.exc # "none") =>
          \A k \in 1..(last.at - 1) :
              Running(components[k]) /\ Recorded(comp[components[k]].server)
    /\ last.op = "stop_servers" =>
          \A s \in 1..Len(server) : server[s].stage = "stopped"

(* start_servers has just failed at its second component; the server of    *)
(* the first is running.                                                   *)
C27_Witness ==
    /\ last = [op |-> "start_servers", exc |-> "RuntimeError", at |-> 2]
    /\ Running(components[1])
    /\ Recorded(comp[components[1]].server)

----------------------------------------------------------------------------
(* The two-service program of example2.py: one framework and one          *)
(* configuration per function, a server per function, and the client      *)
(* component class of that file, which opens a channel per function.      *)

ExampleFuncs == {"json_to_html", "html_to_pdf"}

(* main, lines 175-185: the port of the configuration made for a function. *)
config_port(f) == IF f = "json_to_html" THEN 50053 ELSE 50054

(* "json_to_html" in self.name: of the two names of the example, the one   *)
(* that contains the text.                                                 *)
contains_json_to_html(name) == name = "json_to_html"

(* DynamicgRPCComponent.__init__ of example2.py, line 90: the port of the  *)
(* channel is computed from the function's name.                           *)
channel_port(name) == IF contains_json_to_html(name) THEN 50051 ELSE 50053

(* The number of arguments the framework's methods declare after self; a   *)
(* call with another number of positional arguments raises TypeError.      *)
Parameters == [register_function |-> 3, start_server |-> 4]
call_raises(method, nargs) ==
    IF nargs = Parameters[method] THEN "none" ELSE "TypeError"

NewDemo == [pc |-> "start", configs |-> {}, modules |-> {}, listening |-> {},
            clients |-> {}, reached |-> [f \in ExampleFuncs |-> "not called"],
            exc |-> "none"]

InitExample2 ==
    /\ Fresh
    /\ generated = {}
    /\ orchestrator_class = "example2.py"
    /\ invocation = NoInvocation
    /\ pool = NoPool
    /\ framework = NoFramework
    /\ foreground = NoProgram
    /\ loader = NoProgram
    /\ demo = NewDemo

DemoOnly == UNCHANGED <<generated, comp, components, lifecycle, call, last,
                        orchestrator_class, stmt, invocation, pool, framework,
                        foreground, loader>>

(* main, lines 175-189: the two configurations and the two frameworks.     *)
main_configure ==
    /\ demo.pc = "start"
    /\ demo' = [demo EXCEPT
                  !.pc = "register",
                  !.configs = {[func |-> f, port |-> config_port(f)] :
                                  f \in ExampleFuncs}]
    /\ DemoOnly

(* main, line 192: register_function is called with the function alone.   *)
(* The exception leaves the try block for the handler of line 245.         *)
main_register_function ==
    /\ demo.pc = "register"
    /\ LET exc == call_raises("register_function", 1)
       IN  demo' = [demo EXCEPT !.exc = exc,
                                !.pc = IF exc = "none" THEN "threads"
                                       ELSE "except"]
    /\ DemoOnly

(* main, lines 245-262: the handler prints the error; the finally block    *)
(* finds both server variables None and stops nothing.                     *)
main_finally ==
    /\ demo.pc = "except"
    /\ demo' = [demo EXCEPT !.pc = "done"]
    /\ DemoOnly

(* register_function called as the framework declares it, with the         *)
(* directories of the function's configuration and the outcome out of the  *)
(* protoc run: the generated modules of the function are on disk after a   *)
(* run that ended with code 0.                                             *)
example2_register_function(f, out) ==
    /\ \E cfg \in demo.configs : cfg.func = f
    /\ demo' = [demo EXCEPT
                  !.modules = IF out.code = 0 THEN @ \cup {f} ELSE @,
                  !.exc = _compile_proto_raises(out)]
    /\ DemoOnly

(* start_server called as the framework declares it, on the port of the    *)
(* function's configuration (the port main announces on lines 196, 203).   *)
example2_start_server(f) ==
    /\ \E cfg \in demo.configs : cfg.func = f
    /\ LET exc == IF f \in demo.modules
                  THEN call_raises("start_server", 4)
                  ELSE "FileNotFoundError"
       IN  demo' = [demo EXCEPT
                      !.listening = IF exc = "none"
                                    THEN @ \cup {[func |-> f,
                                                  port |-> config_port(f)]}
                                    ELSE @,
                      !.exc = exc]
    /\ DemoOnly

(* DynamicgRPCComponent(func, proto_dir, generated_dir) of example2.py:    *)
(* loads the generated modules of the function and opens the channel.      *)
example2_DynamicgRPCComponent(f) ==
    /\ \E cfg \in demo.configs : cfg.func = f
    /\ LET exc == IF f \in demo.modules THEN "none" ELSE "FileNotFoundError"
       IN  demo' = [demo EXCEPT
                      !.clients = IF exc = "none"
                                  THEN @ \cup {[func |-> f,
                                                port |-> channel_port(f)]}
                                  ELSE @,
                      !.exc = exc]
    /\ DemoOnly

(* Who answers on a port: the function whose server listens there.         *)
listener(port) ==
    IF \E s \in demo.listening : s.port = port
    THEN (CHOOSE s \in demo.listening : s.port = port).func
    ELSE "nobody"

(* DynamicgRPCComponent.process of example2.py, line 139: the stub's call  *)
(* travels over the component's channel to whatever listens on its port.   *)
example2_process(c) ==
    /\ c \in demo.clients
    /\ demo' = [demo EXCEPT !.reached[c.func] = listener(c.port)]
    /\ DemoOnly

NextExample2 ==
    \/ main_configure
    \/ main_register_function
    \/ main_finally
    \/ \E f \in ExampleFuncs : \E out \in ProtocOutcomes :
          example2_register_function(f, out)
    \/ \E f \in ExampleFuncs : example2_start_server(f)
    \/ \E f \in ExampleFuncs : example2_DynamicgRPCComponent(f)
    \/ \E f \in ExampleFuncs :
          example2_process([func |-> f, port |-> channel_port(f)])

SpecExample2 == InitExample2 /\ [][NextExample2]_vars

(* C28: the client component of a function addresses the port on which    *)
(* the server of that same function listens: whenever a function has both *)
(* a client and a started server, the port of the client's channel is the *)
(* port the server was started on, and a call made through the client     *)
(* reaches the server of its own function.                                *)
C28_ClientAddressesOwnServer ==
    /\ \A c \in demo.clients : \A s \in demo.listening :
          s.func = c.func => c.port = s.port
    /\ \A f \in ExampleFuncs :
          ([func |-> f, port |-> config_port(f)] \in demo.listening
             /\ demo.reached[f] # "not called") => demo.reached[f] = f

----------------------------------------------------------------------------
(* example_usage from the call of start_servers on, for a pipeline of one  *)
(* or more components: the main thread starts                              *)
(* the servers, starts one thread per server that waits for the server's   *)
(* termination, and sleeps in a loop until KeyboardInterrupt, which its    *)
(* handler answers by stopping the servers and joining the threads.        *)
(* KeyboardInterrupt is raised in the main thread, between any two of its  *)
(* steps.                                                                  *)

MaxSleeps == 4          \* iterations of the sleep loop that are told apart
MaxInterrupts == 1      \* interrupts that arrive during one run

NewForeground(n) ==
    [pc |-> "start_servers", components |-> n, servers |-> <<>>,
     threads |-> <<>>, slept |-> 0, stopped |-> 0, joined |-> 0,
     interrupts |-> 0, interrupted_at |-> "none", exc |-> "none"]

InitForeground ==
    /\ Fresh
    /\ generated = {}
    /\ orchestrator_class = "apifunc.py"
    /\ invocation = NoInvocation
    /\ pool = NoPool
    /\ framework = NoFramework
    /\ demo = NoProgram
    /\ loader = NoProgram
    /\ \E n \in 1..MaxServers : foreground = NewForeground(n)

ForegroundOnly == UNCHANGED <<generated, comp, components, lifecycle, call,
                              last, orchestrator_class, stmt, invocation,
                              pool, framework, demo, loader>>

(* Line 376, pipeline.start_servers(): every component's server is started *)
(* and recorded, or the start of component fail raises, which ends         *)
(* example_usage with the servers before it running.                       *)
example_usage_start_servers(fail) ==
    /\ foreground.pc = "start_servers"
    /\ foreground' =
         IF fail = 0
         THEN [foreground EXCEPT
                 !.pc = "threads",
                 !.servers = [k \in 1..foreground.components |-> "running"]]
         ELSE [foreground EXCEPT
                 !.pc = "raised",
                 !.exc = "RuntimeError",
                 !.servers = [k \in 1..(fail - 1) |-> "running"]]
    /\ ForegroundOnly

(* Lines 388-392, one turn of the for loop: a thread is created for the    *)
(* next server and started; it calls server.wait_for_termination().        *)
example_usage_start_thread ==
    /\ foreground.pc = "threads"
    /\ Len(foreground.threads) < Len(foreground.servers)
    /\ foreground' = [foreground EXCEPT !.threads = Append(@, "waiting")]
    /\ ForegroundOnly

(* Lines 392-395: the for loop is over and the try block is entered.       *)
example_usage_enter_try ==
    /\ foreground.pc = "threads"
    /\ Len(foreground.threads) = Len(foreground.servers)
    /\ foreground' = [foreground EXCEPT !.pc = "loop"]
    /\ ForegroundOnly

(* Lines 396-397: while True: time.sleep(1).                               *)
example_usage_sleep ==
    /\ foreground.pc = "loop"
    /\ foreground.slept < MaxSleeps
    /\ foreground' = [foreground EXCEPT !.slept = @ + 1]
    /\ ForegroundOnly

(* Where a KeyboardInterrupt raised at a position of the main thread       *)
(* goes: inside the try block to the handler of line 398, anywhere else    *)
(* out of example_usage.                                                   *)
except_KeyboardInterrupt(pc) == IF pc = "loop" THEN "handler" ELSE "uncaught"

(* An interrupt arrives while the main thread is in example_usage, after   *)
(* start_servers has returned.                                             *)
KeyboardInterrupt ==
    /\ foreground.pc \in {"threads", "loop", "handler", "stopping", "joining"}
    /\ foreground.interrupts < MaxInterrupts
    /\ foreground' = [foreground EXCEPT
                        !.interrupts = @ + 1,
                        !.interrupted_at = foreground.pc,
                        !.exc = "KeyboardInterrupt",
                        !.pc = except_KeyboardInterrupt(foreground.pc)]
    /\ ForegroundOnly

(* Lines 398-400: the handler logs and calls stop_servers.                 *)
example_usage_handler ==
    /\ foreground.pc = "handler"
    /\ foreground' = [foreground EXCEPT !.pc = "stopping", !.exc = "none"]
    /\ ForegroundOnly

(* stop_servers, lines 302-304: one turn of its loop, server.stop(0).      *)
example_usage_stop_server ==
    /\ foreground.pc = "stopping"
    /\ foreground.stopped < Len(foreground.servers)
    /\ foreground' = [foreground EXCEPT
                        !.stopped = @ + 1,
                        !.servers[foreground.stopped + 1] = "stopped"]
    /\ ForegroundOnly

(* stop_servers returns; the joins of lines 401-402 begin.                 *)
example_usage_stop_servers_returns ==
    /\ foreground.pc = "stopping"
    /\ foreground.stopped = Len(foreground.servers)
    /\ foreground' = [foreground EXCEPT !.pc = "joining"]
    /\ ForegroundOnly

(* run_server, lines 382-386, in thread t: wait_for_termination returns    *)
(* once the thread's server is stopped, and the thread ends.               *)
run_server_returns(t) ==
    /\ t \in 1..Len(foreground.threads)
    /\ foreground.threads[t] = "waiting"
    /\ foreground.servers[t] = "stopped"
    /\ foreground' = [foreground EXCEPT !.threads[t] = "finished"]
    /\ ForegroundOnly

(* Lines 401-402, one turn: thread.join() returns when the thread ended.   *)
example_usage_join ==
    /\ foreground.pc = "joining"
    /\ foreground.joined < Len(foreground.threads)
    /\ foreground.threads[foreground.joined + 1] = "finished"
    /\ foreground' = [foreground EXCEPT !.joined = @ + 1]
    /\ ForegroundOnly

(* Line 403 on: all threads are joined and example_usage returns.          *)
example_usage_returns ==
    /\ foreground.pc = "joining"
    /\ foreground.joined = Len(foreground.threads)
    /\ foreground' = [foreground EXCEPT !.pc = "returned"]
    /\ ForegroundOnly

NextForeground ==
    \/ \E fail \in 0..foreground.components : example_usage_start_servers(fail)
    \/ example_usage_start_thread
    \/ example_usage_enter_try
    \/ example_usage_sleep
    \/ KeyboardInterrupt
    \/ example_usage_handler
    \/ example_usage_stop_server
    \/ example_usage_stop_servers_returns
    \/ \E t \in 1..MaxServers + 1 : run_server_returns(t)
    \/ example_usage_join
    \/ example_usage_returns

SpecForeground == InitForeground /\ [][NextForeground]_vars

(* The main thread and the waiting threads each keep running while they    *)
(* can take a step; nothing obliges an interrupt to arrive.                *)
FairForeground ==
    /\ WF_vars(\E fail \in 0..foreground.components :
                  example_usage_start_servers(fail))
    /\ WF_vars(example_usage_start_thread)
    /\ WF_vars(example_usage_enter_try)
    /\ WF_vars(example_usage_sleep)
    /\ WF_vars(example_usage_handler)
    /\ WF_vars(example_usage_stop_server)
    /\ WF_vars(example_usage_stop_servers_returns)
    /\ \A t \in 1..MaxServers + 1 : WF_vars(run_server_returns(t))
    /\ WF_vars(example_usage_join)
    /\ WF_vars(example_usage_returns)

FairSpecForeground == SpecForeground /\ FairForeground

CleanShutdown ==
    /\ foreground.pc = "returned"
    /\ \A k \in 1..Len(foreground.servers) : foreground.servers[k] = "stopped"
    /\ \A t \in 1..Len(foreground.threads) : foreground.threads[t] = "finished"
    /\ foreground.joined = Len(foreground.threads)

(* C29: once an interrupt has arrived after start_servers returned, every  *)
(* started server is eventually stopped, every thread waiting on a server  *)
(* has finished and is joined, and example_usage returns.                  *)
C29_InterruptLeadsToCleanShutdown ==
    (foreground.interrupts > 0) ~> CleanShutdown

----------------------------------------------------------------------------
(* The import of apifunc.components by example.py (line 15).  The body of  *)
(* the module defines the two component classes and then, at module level, *)
(* sleeps in a loop that only KeyboardInterrupt leaves (lines 63-68).      *)

MaxSeconds == 30        \* iterations of the module's sleep loop told apart

ComponentClasses == <<"BaseComponent", "DynamicgRPCComponent">>

NewLoader == [pc |-> "body", classes |-> <<>>, seconds |-> 0,
              interrupts |-> 0, exc |-> "none"]

InitLoader ==
    /\ Fresh
    /\ generated = {}
    /\ orchestrator_class = "apifunc.py"
    /\ invocation = NoInvocation
    /\ pool = NoPool
    /\ framework = NoFramework
    /\ demo = NoProgram
    /\ foreground = NoProgram
    /\ loader = NewLoader

LoaderOnly == UNCHANGED <<generated, comp, components, lifecycle, call, last,
                          orchestrator_class, stmt, invocation, pool,
                          framework, demo, foreground>>

(* components.py, lines 12 and 22: the next class statement is executed.   *)
components_class_statement ==
    /\ loader.pc = "body"
    /\ Len(loader.classes) < Len(ComponentClasses)
    /\ loader' = [loader EXCEPT
                    !.classes = Append(@, ComponentClasses[Len(@) + 1])]
    /\ LoaderOnly

(* components.py, lines 64-65: the try block and its loop are entered.     *)
components_enter_loop ==
    /\ loader.pc = "body"
    /\ Len(loader.classes) = Len(ComponentClasses)
    /\ loader' = [loader EXCEPT !.pc = "loop"]
    /\ LoaderOnly

(* components.py, lines 65-66: while True: time.sleep(1).  The loop has no *)
(* exit of its own: the sleep is called, returns after a second, and is    *)
(* called again.  The seconds are counted up to MaxSeconds.                *)
components_sleep ==
    /\ loader.pc = "loop"
    /\ loader' = [loader EXCEPT !.pc = "sleeping"]
    /\ LoaderOnly

components_sleep_returns ==
    /\ loader.pc = "sleeping"
    /\ loader' = [loader EXCEPT
                    !.pc = "loop",
                    !.seconds = IF @ < MaxSeconds THEN @ + 1 ELSE @]
    /\ LoaderOnly

(* KeyboardInterrupt is raised in the importing thread: inside the loop it *)
(* goes to the handler of line 67, anywhere else in the body it leaves the *)
(* import, and the half-made module is dropped.                            *)
components_KeyboardInterrupt ==
    /\ loader.pc \in {"body", "loop", "sleeping", "handler"}
    /\ loader.interrupts < MaxInterrupts
    /\ loader' = IF loader.pc \in {"loop", "sleeping"}
                 THEN [loader EXCEPT !.interrupts = @ + 1,
                                     !.pc = "handler"]
                 ELSE [loader EXCEPT !.interrupts = @ + 1,
                                     !.pc = "failed",
                                     !.classes = <<>>,
                                     !.exc = "KeyboardInterrupt"]
    /\ LoaderOnly

(* components.py, lines 67-68: the handler logs; the body is over and the  *)
(* import statement of example.py binds DynamicgRPCComponent.              *)
components_handler ==
    /\ loader.pc = "handler"
    /\ loader' = [loader EXCEPT !.pc = "loaded"]
    /\ LoaderOnly

(* example.py, line 16: the next import of the importer.                   *)
example_import_apifunc ==
    /\ loader.pc = "loaded"
    /\ loader' = [loader EXCEPT !.pc = "imported"]
    /\ LoaderOnly

(* example.py, lines 46-71: main registers its function with the function  *)
(* alone as argument; the exception is logged by the handler of line 69.   *)
example_main ==
    /\ loader.pc = "imported"
    /\ loader' = [loader EXCEPT !.pc = "done",
                                !.exc = call_raises("register_function", 1)]
    /\ LoaderOnly

NextLoader ==
    \/ components_class_statement
    \/ components_enter_loop
    \/ components_sleep
    \/ components_sleep_returns
    \/ components_KeyboardInterrupt
    \/ components_handler
    \/ example_import_apifunc
    \/ example_main

SpecLoader == InitLoader /\ [][NextLoader]_vars

(* The interpreter keeps executing the importing thread; nothing obliges   *)
(* an interrupt to arrive.                                                 *)
FairSpecLoader ==
    /\ SpecLoader
    /\ WF_vars(components_class_statement)
    /\ WF_vars(components_enter_loop)
    /\ WF_vars(components_sleep)
    /\ WF_vars(components_sleep_returns)
    /\ WF_vars(components_handler)
    /\ WF_vars(example_import_apifunc)
    /\ WF_vars(example_main)

Loaded == loader.pc \in {"loaded", "imported", "done"}

(* C30: the import of the components module terminates without outside    *)
(* intervention: in every run, the module is eventually loaded, with its  *)
(* classes bound for the importer, unless an interrupt arrived.           *)
C30_LoadTerminates ==
    <>(loader.interrupts > 0 \/ (Loaded /\ Len(loader.classes) = 2))

====
